---- MODULE Spec2Model ----
(***************************************************************************)
(* The smart-home hub of main.py as a state machine: the MQTT callbacks    *)
(* (on_mqtt_connect, on_mqtt_message and the three handlers behind it),    *)
(* the device control route, the natural-language route, the read routes,  *)
(* the two in-memory dictionaries, the four SQLite tables, the messages    *)
(* published on the broker and the events emitted to the web clients.      *)
(*                                                                         *)
(* Text is modelled as a sequence of one-character strings, so that        *)
(* Python's `in` on strings and str.split are computed character by        *)
(* character.  A JSON value is a record [t |-> type, v |-> value]; a JSON  *)
(* text is a record [fmt |-> how it is written, val |-> the value it       *)
(* denotes], so that json.loads and json.dumps are not inverse to each     *)
(* other on texts.                                                         *)
(***************************************************************************)
EXTENDS Integers, Sequences, FiniteSets, TLC

(***************************************************************************)
(* Bounds of the model.                                                    *)
(***************************************************************************)
\* The number of handler runs (messages delivered, control requests) of a behaviour.
MaxOps == 2

(***************************************************************************)
(* Text.                                                                   *)
(***************************************************************************)
smarthome == <<"s", "m", "a", "r", "t", "h", "o", "m", "e">>
living_room_light == <<"l", "i", "v", "i", "n", "g", "_", "r", "o", "o", "m", "_", "l", "i", "g", "h", "t">>
living_room_fan == <<"l", "i", "v", "i", "n", "g", "_", "r", "o", "o", "m", "_", "f", "a", "n">>
bedroom_light == <<"b", "e", "d", "r", "o", "o", "m", "_", "l", "i", "g", "h", "t">>
bedroom_ac == <<"b", "e", "d", "r", "o", "o", "m", "_", "a", "c">>
kitchen_light == <<"k", "i", "t", "c", "h", "e", "n", "_", "l", "i", "g", "h", "t">>
motion_sensor_entrance == <<"m", "o", "t", "i", "o", "n", "_", "s", "e", "n", "s", "o", "r", "_", "e", "n", "t", "r", "a", "n", "c", "e">>
\* A device id that init_database does not seed.
fan1 == <<"f", "a", "n", "1">>
Str_status == <<"s", "t", "a", "t", "u", "s">>
Str_sensor == <<"s", "e", "n", "s", "o", "r">>
Str_energy == <<"e", "n", "e", "r", "g", "y">>
Str_control == <<"c", "o", "n", "t", "r", "o", "l">>
Slash == <<"/">>
EmptyStr == <<>>
\* Python's None where a text is expected; no text equals it (texts hold single characters).
None == <<"None">>

\* Python's `pat in s` on two strings.
IsSubstring(pat, s) ==
    \E i \in 1..(Len(s) - Len(pat) + 1) : SubSeq(s, i, i + Len(pat) - 1) = pat

\* The position of the first sep in s at or after i, or Len(s) + 1.
RECURSIVE FindFrom(_, _, _)
FindFrom(s, sep, i) ==
    IF i > Len(s) THEN Len(s) + 1
    ELSE IF s[i] = sep THEN i
    ELSE FindFrom(s, sep, i + 1)

\* Python's s.split(sep) for a one-character sep: the pieces between the separators,
\* empty pieces kept.
RECURSIVE SplitFrom(_, _, _)
SplitFrom(s, sep, i) ==
    LET j == FindFrom(s, sep, i)
    IN  IF j > Len(s) THEN <<SubSeq(s, i, Len(s))>>
        ELSE <<SubSeq(s, i, j - 1)>> \o SplitFrom(s, sep, j + 1)

split(s, sep) == SplitFrom(s, sep, 1)

(***************************************************************************)
(* JSON values and texts.                                                  *)
(***************************************************************************)
JNull == [t |-> "null", v |-> 0]
JBool(b) == [t |-> "bool", v |-> b]
JNum(n) == [t |-> "number", v |-> n]
JStr(s) == [t |-> "string", v |-> s]
JArr(a) == [t |-> "array", v |-> a]
JObj(f) == [t |-> "object", v |-> f]

\* Python's truth value of a parsed JSON value.
Truthy(j) ==
    CASE j.t = "null" -> FALSE
      [] j.t = "bool" -> j.v
      [] j.t = "number" -> j.v # 0
      [] j.t = "string" -> j.v # ""
      [] j.t = "array" -> Len(j.v) > 0
      [] j.t = "object" -> DOMAIN j.v # {}

\* dict.get(key, default); only a dict has it.
HasGet(j) == j.t = "object"
Get(j, key, default) == IF key \in DOMAIN j.v THEN j.v[key] ELSE default

\* A JSON text: json.dumps writes the "canonical" format (", " and ": " separators);
\* a sender may write the same value otherwise ("compact"), or send no JSON at all.
JsonText(fmt, val) == [fmt |-> fmt, val |-> val]
NotJson == JsonText("invalid", JNull)
dumps(val) == JsonText("canonical", val)
Parses(text) == text.fmt # "invalid"
loads(text) == text.val

(***************************************************************************)
(* SQLite values: what sqlite3 stores for a bound Python scalar.           *)
(***************************************************************************)
SqlNull == [t |-> "null", v |-> 0]
SqlText(s) == [t |-> "text", v |-> s]
SqlInt(n) == [t |-> "integer", v |-> n]
SqlTime(n) == [t |-> "timestamp", v |-> n]
SqlBind(j) ==
    CASE j.t = "null" -> SqlNull
      [] j.t = "string" -> SqlText(j.v)
      [] j.t = "number" -> SqlInt(j.v)
      [] j.t = "bool" -> SqlInt(IF j.v THEN 1 ELSE 0)

(***************************************************************************)
(* Configuration and the program's state.                                  *)
(***************************************************************************)
Topic(device_id, class) == smarthome \o Slash \o device_id \o Slash \o class
Plus == <<"+">>
MQTT_TOPICS ==
    [device_status |-> Topic(Plus, Str_status),
     device_control |-> Topic(Plus, Str_control),
     sensor_data |-> Topic(Plus, Str_sensor),
     energy_data |-> Topic(Plus, Str_energy)]
MQTT_TOPICS_values == {MQTT_TOPICS[k] : k \in DOMAIN MQTT_TOPICS}

\* The rows init_database inserts into an empty devices table; last_seen is left NULL.
SampleRow(name, type, room, config) ==
    [name |-> name, type |-> type, room |-> room, status |-> SqlText("offline"),
     last_seen |-> SqlNull, config |-> config]
sample_devices ==
    (living_room_light :> SampleRow("Living Room Light", "light", "living_room",
                                    dumps(JObj([brightness |-> JNum(100)]))))
    @@ (living_room_fan :> SampleRow("Living Room Fan", "fan", "living_room",
                                     dumps(JObj([speed |-> JNum(0)]))))
    @@ (bedroom_light :> SampleRow("Bedroom Light", "light", "bedroom",
                                   dumps(JObj([brightness |-> JNum(100)]))))
    @@ (bedroom_ac :> SampleRow("Bedroom AC", "ac", "bedroom",
                                dumps(JObj([temperature |-> JNum(24), mode |-> JStr("cool")]))))
    @@ (kitchen_light :> SampleRow("Kitchen Light", "light", "kitchen",
                                   dumps(JObj([brightness |-> JNum(100)]))))
    @@ (motion_sensor_entrance :> SampleRow("Entrance Motion Sensor", "motion_sensor",
                                            "entrance", dumps(JObj(<<>>))))

\* What Flask answers: jsonify's body and the status code.
Response(success, code) == [success |-> success, code |-> code]
NoResponse == [success |-> FALSE, code |-> 0]

VARIABLES
    devices,             \* the global dict devices: device id -> last status payload
    sensor_data,         \* the global dict sensor_data: device id -> last sensor payload
    devices_table,       \* table devices: id -> row
    device_logs,         \* table device_logs, in insertion order
    energy_consumption,  \* table energy_consumption, in insertion order
    security_events,     \* table security_events, in insertion order
    emitted,             \* the socketio.emit calls, in order
    published,           \* the mqtt_client.publish calls, in order
    connected,           \* whether the MQTT client holds a broker connection
    subscriptions,       \* the topic filters subscribed on that connection
    now,                 \* the clock: every write, publish and emit takes the next instant
    error,               \* the exception the last handler run caught, or "none"
    response,            \* the JSON body and status code of the last HTTP response
    history,             \* the handler runs so far: what was delivered or requested
    db_fails,            \* whether sqlite3 raises OperationalError on a statement now
    returned,            \* what the last run in history gave its caller: None or a response
    inbox,               \* the PUBLISH packets received that on_mqtt_message has not finished
    pc                   \* where the MQTT loop thread is in on_mqtt_message

vars == <<devices, sensor_data, devices_table, device_logs, energy_consumption,
          security_events, emitted, published, connected, subscriptions, now, error,
          response, history, db_fails, returned, inbox, pc>>

\* The state after init_database on a fresh database file and init_mqtt: the client is
\* created and connecting; on_mqtt_connect has not run yet.
Init ==
    /\ devices = <<>>
    /\ sensor_data = <<>>
    /\ devices_table = sample_devices
    /\ device_logs = <<>>
    /\ energy_consumption = <<>>
    /\ security_events = <<>>
    /\ emitted = <<>>
    /\ published = <<>>
    /\ connected = FALSE
    /\ subscriptions = {}
    /\ now = 0
    /\ error = "none"
    /\ response = NoResponse
    /\ history = <<>>
    /\ db_fails = FALSE
    /\ returned = "None"
    /\ inbox = <<>>
    /\ pc = "idle"

\* DictSet as d[key].update(value) would do it: the keys of the entry already there
\* are kept.
DictSet_update(d, key, value) ==
    [k \in DOMAIN d \cup {key} |->
        IF k # key THEN d[k]
        ELSE IF key \in DOMAIN d /\ d[key].t = "object" /\ value.t = "object"
        THEN JObj([f \in DOMAIN d[key].v \cup DOMAIN value.v |->
                      IF f \in DOMAIN value.v THEN value.v[f] ELSE d[key].v[f]])
        ELSE value]

\* DictSet as building the dictionary anew from the one entry would do it: the entries
\* of the other keys are lost.
DictSet_fresh(d, key, value) == [k \in {key} |-> value]

\* d[key] = value on a Python dict.
DictSet(d, key, value) ==
    [k \in DOMAIN d \cup {key} |-> IF k = key THEN value ELSE d[k]]

\* socketio.emit(event, data) at instant at.
Emit(event, id, data, at) == [event |-> event, id |-> id, data |-> data, at |-> at]

\* A row of device_logs; the timestamp column defaults to CURRENT_TIMESTAMP.
LogRow(device_id, action, value, at) ==
    [device_id |-> device_id, action |-> action, value |-> value, timestamp |-> SqlTime(at)]

\* InsertLog with the foreign key enforced (PRAGMA foreign_keys = ON): a row for an id
\* that is not in devices is refused.
InsertLog_foreign_key(table, row) ==
    IF row.device_id \in DOMAIN devices_table THEN Append(table, row) ELSE table

\* InsertLog as INSERT OR REPLACE keyed by the device would do it: the device's earlier
\* rows are gone.
InsertLog_upsert(table, row) ==
    SelectSeq(table, LAMBDA r : r.device_id # row.device_id) \o <<row>>

\* INSERT INTO device_logs: the foreign key to devices is not enforced (SQLite's
\* default), so a row for an id that is not in devices is inserted all the same.
InsertLog(table, row) == Append(table, row)

\* payload.get('status', 'online'), as bound to the UPDATE.
StatusValue(payload) == SqlBind(Get(payload, "status", JStr("online")))

\* MotionDetected as `'motion_detected' in payload` would decide it.
MotionDetected_key_present(payload) == "motion_detected" \in DOMAIN payload.v

\* payload.get('motion_detected'), as the if takes it.
MotionDetected(payload) == Truthy(Get(payload, "motion_detected", JNull))

\* TruthyId as `device_id is not None` would decide it: '' passes.
TruthyId_not_none(device_id) == device_id # None

\* Python's truth value of a device id: None and '' are false.
TruthyId(device_id) == device_id # None /\ device_id # EmptyStr

(***************************************************************************)
(* The handlers behind on_mqtt_message.  Each sets the dictionaries, the   *)
(* tables, the emitted events, the clock and the caught exception.  While  *)
(* the store fails, cursor.execute raises OperationalError: nothing of the *)
(* handler's transaction is committed and nothing after it runs.           *)
(***************************************************************************)
HubUnchanged ==
    UNCHANGED <<devices, sensor_data, devices_table, device_logs, energy_consumption,
                security_events, emitted, now>>

\* UpdateStatus as an insert-or-update would do it: a device id without a row gets one.
UpdateStatus_upsert(table, device_id, status_value, at) ==
    [id \in DOMAIN table \cup {device_id} |->
        IF id # device_id THEN table[id]
        ELSE IF id \in DOMAIN table
        THEN [table[id] EXCEPT !.status = status_value, !.last_seen = SqlTime(at)]
        ELSE [name |-> "", type |-> "", room |-> "", status |-> status_value,
              last_seen |-> SqlTime(at), config |-> dumps(JObj(<<>>))]]

\* UPDATE devices SET status = ?, last_seen = CURRENT_TIMESTAMP WHERE id = ?
UpdateStatus(table, device_id, status_value, at) ==
    [id \in DOMAIN table |->
        IF id = device_id
        THEN [table[id] EXCEPT !.status = status_value, !.last_seen = SqlTime(at)]
        ELSE table[id]]

\* handle_device_status with the broadcast before the database is written.
handle_device_status_emit_first(device_id, payload) ==
    IF TruthyId(device_id)
    THEN /\ devices' = DictSet(devices, device_id, payload)
         /\ IF ~HasGet(payload)
            THEN /\ UNCHANGED <<devices_table, device_logs, emitted, now>>
                 /\ error' = "AttributeError"
            ELSE IF db_fails
            THEN /\ emitted' = Append(emitted, Emit("device_update", device_id, payload, now + 1))
                 /\ now' = now + 1
                 /\ UNCHANGED <<devices_table, device_logs>>
                 /\ error' = "OperationalError"
            ELSE /\ emitted' = Append(emitted, Emit("device_update", device_id, payload, now + 1))
                 /\ devices_table' =
                        UpdateStatus(devices_table, device_id, StatusValue(payload), now + 2)
                 /\ device_logs' =
                        InsertLog(device_logs,
                                  LogRow(device_id, "status_update", dumps(payload), now + 3))
                 /\ now' = now + 3
                 /\ error' = "none"
         /\ UNCHANGED <<sensor_data, energy_consumption, security_events>>
    ELSE /\ HubUnchanged
         /\ error' = "none"

handle_device_status(device_id, payload) ==
    IF TruthyId(device_id)
    THEN /\ devices' = DictSet(devices, device_id, payload)
         /\ IF HasGet(payload) /\ db_fails
            THEN \* cursor.execute raises: nothing is committed, nothing is emitted
                 /\ UNCHANGED <<devices_table, device_logs, emitted, now>>
                 /\ error' = "OperationalError"
            ELSE IF HasGet(payload)
            THEN /\ devices_table' =
                        UpdateStatus(devices_table, device_id, StatusValue(payload), now + 1)
                 /\ device_logs' =
                        InsertLog(device_logs,
                                  LogRow(device_id, "status_update", dumps(payload), now + 2))
                 /\ emitted' = Append(emitted, Emit("device_update", device_id, payload, now + 3))
                 /\ now' = now + 3
                 /\ error' = "none"
            ELSE \* payload.get raises while the UPDATE's parameters are built: the
                 \* dictionary is already written, nothing reaches the database.
                 /\ UNCHANGED <<devices_table, device_logs, emitted, now>>
                 /\ error' = "AttributeError"
         /\ UNCHANGED <<sensor_data, energy_consumption, security_events>>
    ELSE /\ HubUnchanged
         /\ error' = "none"

handle_sensor_data(device_id, payload) ==
    IF TruthyId(device_id)
    THEN /\ sensor_data' = DictSet(sensor_data, device_id, payload)
         /\ IF ~HasGet(payload)
            THEN /\ UNCHANGED <<security_events, emitted, now>>
                 /\ error' = "AttributeError"
            ELSE IF MotionDetected(payload) /\ db_fails
            THEN /\ UNCHANGED <<security_events, emitted, now>>
                 /\ error' = "OperationalError"
            ELSE IF MotionDetected(payload)
            THEN /\ security_events' =
                        Append(security_events,
                               [sensor_id |-> device_id, event_type |-> "motion_detected",
                                description |-> "Motion detected by sensor",
                                timestamp |-> SqlTime(now + 1)])
                 /\ emitted' =
                        Append(emitted,
                               Emit("security_alert", device_id, JStr("motion_detected"), now + 2))
                 /\ now' = now + 2
                 /\ error' = "none"
            ELSE /\ UNCHANGED <<security_events, emitted, now>>
                 /\ error' = "none"
         /\ UNCHANGED <<devices, devices_table, device_logs, energy_consumption>>
    ELSE /\ HubUnchanged
         /\ error' = "none"

\* Whether `'power_watts' in payload` can be evaluated: a number, a boolean and None
\* are not iterable.  (A top-level JSON string is not among the payloads delivered.)
InRaises(payload) == payload.t \in {"number", "bool", "null"}
\* 'power_watts' in payload, for a dict (a key) or a list (an element).
InPayload(key, payload) ==
    CASE payload.t = "object" -> key \in DOMAIN payload.v
      [] payload.t = "array" -> \E i \in DOMAIN payload.v : payload.v[i] = JStr(key)

\* handle_energy_data keeping a mirror of the reading in the devices dictionary.
handle_energy_data_mirrored(device_id, payload) ==
    IF TruthyId(device_id) /\ payload.t = "object" /\ "power_watts" \in DOMAIN payload.v
       /\ ~db_fails
    THEN /\ devices' = DictSet(devices, device_id, payload)
         /\ energy_consumption' =
                Append(energy_consumption,
                       [device_id |-> device_id,
                        power_watts |-> SqlBind(payload.v["power_watts"]),
                        timestamp |-> SqlTime(now + 1)])
         /\ now' = now + 1
         /\ error' = "none"
         /\ UNCHANGED <<sensor_data, devices_table, device_logs, security_events, emitted>>
    ELSE /\ HubUnchanged
         /\ error' = "none"

handle_energy_data(device_id, payload) ==
    IF ~TruthyId(device_id)
    THEN /\ HubUnchanged
         /\ error' = "none"
    ELSE IF InRaises(payload)
    THEN /\ HubUnchanged
         /\ error' = "TypeError"
    ELSE IF ~InPayload("power_watts", payload)
    THEN /\ HubUnchanged
         /\ error' = "none"
    ELSE IF payload.t # "object"
    THEN \* payload['power_watts'] on a list
         /\ HubUnchanged
         /\ error' = "TypeError"
    ELSE IF db_fails
    THEN /\ HubUnchanged
         /\ error' = "OperationalError"
    ELSE /\ energy_consumption' =
                Append(energy_consumption,
                       [device_id |-> device_id,
                        power_watts |-> SqlBind(payload.v["power_watts"]),
                        timestamp |-> SqlTime(now + 1)])
         /\ now' = now + 1
         /\ error' = "none"
         /\ UNCHANGED <<devices, sensor_data, devices_table, device_logs,
                        security_events, emitted>>

(***************************************************************************)
(* on_mqtt_message.                                                        *)
(***************************************************************************)
\* topic_parts[1] if len(topic_parts) > 1 else None
DeviceIdOf(topic) ==
    LET topic_parts == split(topic, "/")
    IN  IF Len(topic_parts) > 1 THEN topic_parts[2] ELSE None

\* Route with the sensor test before the status test.
Route_sensor_first(topic) ==
    IF IsSubstring(Str_sensor, topic) THEN "handle_sensor_data"
    ELSE IF IsSubstring(Str_status, topic) THEN "handle_device_status"
    ELSE IF IsSubstring(Str_energy, topic) THEN "handle_energy_data"
    ELSE "none"

\* The if/elif chain on the topic: the handler that is called, or "none".
Route(topic) ==
    IF IsSubstring(Str_status, topic) THEN "handle_device_status"
    ELSE IF IsSubstring(Str_sensor, topic) THEN "handle_sensor_data"
    ELSE IF IsSubstring(Str_energy, topic) THEN "handle_energy_data"
    ELSE "none"

Run(op, topic, device_id, raw, handler) ==
    [op |-> op, topic |-> topic, device_id |-> device_id, raw |-> raw, handler |-> handler]

on_mqtt_message(topic, raw) ==
    /\ UNCHANGED <<published, connected, subscriptions, response, db_fails>>
    /\ returned' = "None"
    /\ IF ~Parses(raw)
       THEN \* json.loads raises before the topic is looked at
            /\ HubUnchanged
            /\ error' = "JSONDecodeError"
            /\ history' = Append(history, Run("message", topic, None, raw, "none"))
       ELSE LET payload == loads(raw)
                device_id == DeviceIdOf(topic)
                handler == Route(topic)
            IN  /\ history' = Append(history, Run("message", topic, device_id, raw, handler))
                /\ CASE handler = "handle_device_status" ->
                            handle_device_status(device_id, payload)
                     [] handler = "handle_sensor_data" ->
                            handle_sensor_data(device_id, payload)
                     [] handler = "handle_energy_data" ->
                            handle_energy_data(device_id, payload)
                     [] OTHER -> HubUnchanged /\ error' = "none"

(***************************************************************************)
(* on_mqtt_connect and the control route.                                  *)
(***************************************************************************)
\* on_mqtt_connect with the subscribing done on the first connect only.
on_mqtt_connect_once(rc) ==
    /\ ~connected
    /\ IF rc = 0
       THEN /\ connected' = TRUE
            /\ subscriptions' =
                   IF \E i \in DOMAIN emitted : emitted[i].event = "mqtt_status"
                   THEN subscriptions
                   ELSE subscriptions \cup MQTT_TOPICS_values
            /\ emitted' =
                   Append(emitted,
                          Emit("mqtt_status", EmptyStr, JObj([connected |-> JBool(TRUE)]),
                               now + 1))
            /\ now' = now + 1
       ELSE UNCHANGED <<connected, subscriptions, emitted, now>>
    /\ UNCHANGED <<devices, sensor_data, devices_table, device_logs, energy_consumption,
                   security_events, published, error, response, history, db_fails,
                   returned, inbox, pc>>

on_mqtt_connect(rc) ==
    /\ ~connected
    /\ IF rc = 0
       THEN /\ connected' = TRUE
            /\ subscriptions' = subscriptions \cup MQTT_TOPICS_values
            /\ emitted' =
                   Append(emitted,
                          Emit("mqtt_status", EmptyStr, JObj([connected |-> JBool(TRUE)]),
                               now + 1))
            /\ now' = now + 1
       ELSE UNCHANGED <<connected, subscriptions, emitted, now>>
    /\ UNCHANGED <<devices, sensor_data, devices_table, device_logs, energy_consumption,
                   security_events, published, error, response, history, db_fails,
                   returned, inbox, pc>>

\* mqtt_client.publish(topic, payload): the call is recorded with the result code paho
\* gives it; without a connection paho returns MQTT_ERR_NO_CONN and raises nothing.
Publish(topic, payload, at) ==
    [topic |-> topic, payload |-> payload,
     rc |-> IF connected THEN "MQTT_ERR_SUCCESS" ELSE "MQTT_ERR_NO_CONN", at |-> at]

\* control_device with the INSERT before the publish.
control_device_log_first(device_id, body) ==
    /\ Len(history) < MaxOps
    /\ history' =
           Append(history,
                  Run("control", Topic(device_id, Str_control), device_id, body, "control_device"))
    /\ IF ~Parses(body)
       THEN /\ UNCHANGED <<published, device_logs, now>>
            /\ error' = "BadRequest"
            /\ response' = Response(FALSE, 500)
       ELSE IF db_fails
       THEN /\ UNCHANGED <<published, device_logs, now>>
            /\ error' = "OperationalError"
            /\ response' = Response(FALSE, 500)
       ELSE LET command == loads(body)
                topic == Topic(device_id, Str_control)
            IN  /\ device_logs' =
                       InsertLog(device_logs,
                                 LogRow(device_id, "control_command", dumps(command), now + 1))
                /\ published' = Append(published, Publish(topic, dumps(command), now + 2))
                /\ now' = now + 2
                /\ error' = "none"
                /\ response' = Response(TRUE, 200)
    /\ returned' = "Response"
    /\ UNCHANGED <<devices, sensor_data, devices_table, energy_consumption,
                   security_events, emitted, connected, subscriptions, db_fails, inbox, pc>>

control_device(device_id, body) ==
    /\ Len(history) < MaxOps
    /\ history' =
           Append(history,
                  Run("control", Topic(device_id, Str_control), device_id, body, "control_device"))
    /\ IF ~Parses(body)
       THEN \* request.json raises BadRequest inside the try
            /\ UNCHANGED <<published, device_logs, now>>
            /\ error' = "BadRequest"
            /\ response' = Response(FALSE, 500)
       ELSE IF db_fails
       THEN \* the publish is made, then cursor.execute raises: no row, a 500
            /\ published' =
                   Append(published,
                          Publish(Topic(device_id, Str_control), dumps(loads(body)), now + 1))
            /\ now' = now + 1
            /\ UNCHANGED device_logs
            /\ error' = "OperationalError"
            /\ response' = Response(FALSE, 500)
       ELSE LET command == loads(body)
                topic == Topic(device_id, Str_control)
            IN  /\ published' = Append(published, Publish(topic, dumps(command), now + 1))
                /\ device_logs' =
                       InsertLog(device_logs,
                                 LogRow(device_id, "control_command", dumps(command), now + 2))
                /\ now' = now + 2
                /\ error' = "none"
                /\ response' = Response(TRUE, 200)
    /\ returned' = "Response"
    /\ UNCHANGED <<devices, sensor_data, devices_table, energy_consumption,
                   security_events, emitted, connected, subscriptions, db_fails, inbox, pc>>

(***************************************************************************)
(* The environment: what the broker delivers and what the web clients ask. *)
(***************************************************************************)
\* Device ids in topics and requests: two seeded ones, one that is not in the table.
DeviceIds == {living_room_light, motion_sensor_entrance, fan1}

\* Topics of delivered messages: a status topic for each device id, the sensor topic of
\* the motion sensor, the energy topic of a light and of the motion sensor, the three
\* ingested classes with an empty device level, which the filter smarthome/+/<class>
\* admits, and a topic of a single level, which no filter of MQTT_TOPICS admits and
\* which is there for the len(topic_parts) > 1 test.  (Control topics are delivered by
\* Loopback.)
Topics ==
    {Topic(d, Str_status) : d \in DeviceIds}
    \cup {Topic(motion_sensor_entrance, Str_sensor)}
    \cup {Topic(d, Str_energy) : d \in {living_room_light, motion_sensor_entrance}}
    \cup {Topic(EmptyStr, c) : c \in {Str_status, Str_sensor, Str_energy}}
    \cup {Str_status}

PayloadStatus == JObj([status |-> JStr("offline"), brightness |-> JNum(80)])
PayloadMotion == JObj([motion_detected |-> JBool(TRUE)])
PayloadNoMotion == JObj([motion_detected |-> JBool(FALSE)])
PayloadPower == JObj([power_watts |-> JNum(10)])
\* The bodies delivered: JSON objects, JSON that is no object, and no JSON.
RawPayloads ==
    <<JsonText("compact", PayloadStatus),
      dumps(PayloadMotion),
      dumps(PayloadNoMotion),
      dumps(PayloadPower),
      dumps(JArr(<<JNum(1)>>)),
      NotJson>>

\* The bodies of control requests: JSON objects.
CommandOn == JObj([power |-> JStr("on"), brightness |-> JNum(80)])
CommandOff == JObj([power |-> JStr("off")])
RequestBodies == <<JsonText("compact", CommandOn), dumps(CommandOff)>>

\* paho calls on_message for a PUBLISH packet the broker sends on the connection.
Receive ==
    /\ connected
    /\ Len(history) < MaxOps
    /\ UNCHANGED <<inbox, pc>>
    /\ \E topic \in Topics : \E i \in DOMAIN RawPayloads :
           on_mqtt_message(topic, RawPayloads[i])

\* The hub subscribes to smarthome/+/control, so the broker sends its own accepted
\* control publishes back to it.
Loopback ==
    /\ connected
    /\ Len(history) < MaxOps
    /\ UNCHANGED <<inbox, pc>>
    /\ \E i \in DOMAIN published :
           /\ published[i].rc = "MQTT_ERR_SUCCESS"
           /\ MQTT_TOPICS.device_control \in subscriptions
           /\ on_mqtt_message(published[i].topic, published[i].payload)

Connect == \E rc \in {0, 5} : on_mqtt_connect(rc)

Control ==
    \E device_id \in DeviceIds : \E i \in DOMAIN RequestBodies :
        control_device(device_id, RequestBodies[i])

Next == Connect \/ Receive \/ Loopback \/ Control

Spec == Init /\ [][Next]_vars

(***************************************************************************)
(* The read API.                                                           *)
(***************************************************************************)
\* get_devices: every row with its config column decoded.  (The seeded rows all hold a
\* config text and no handler writes the column, so the `else {}` is never taken.)
get_devices ==
    [id \in DOMAIN devices_table |->
        [id |-> id,
         name |-> devices_table[id].name,
         type |-> devices_table[id].type,
         room |-> devices_table[id].room,
         status |-> devices_table[id].status,
         last_seen |-> devices_table[id].last_seen,
         config |-> loads(devices_table[id].config)]]

(***************************************************************************)
(* Vocabulary of the properties.                                           *)
(***************************************************************************)
Ran == Len(history) > 0
\* The most recent handler run.
Last == history[Len(history)]
\* In a step: a handler ran, and which.
Stepped == Len(history') = Len(history) + 1
NewRun == history'[Len(history')]
MessageStep == Stepped /\ NewRun.op = "message"
\* The second level of a topic names a device.
HasDeviceLevel(topic) == Len(split(topic, "/")) > 1 /\ split(topic, "/")[2] # EmptyStr
\* A table grew by exactly the row r, its earlier rows untouched.
AppendedOne(before, after) ==
    Len(after) = Len(before) + 1 /\ SubSeq(after, 1, Len(before)) = before
Newest(table) == table[Len(table)]
HubSame ==
    /\ devices' = devices
    /\ sensor_data' = sensor_data
    /\ devices_table' = devices_table
    /\ device_logs' = device_logs
    /\ energy_consumption' = energy_consumption
    /\ security_events' = security_events
    /\ emitted' = emitted
    /\ published' = published

(***************************************************************************)
(* C1.  A delivered message whose body parses is classified by the first   *)
(* of 'status', 'sensor', 'energy' that occurs in its topic: a topic with  *)
(* 'status' runs the status branch only (also when it holds 'sensor'), one *)
(* without 'status' but with 'sensor' the sensor branch only, one with     *)
(* neither but with 'energy' the energy branch only, any other topic no    *)
(* branch; never two branches for one message.                             *)
(***************************************************************************)
C1_Classified ==
    LET topic == NewRun.topic
        payload == loads(NewRun.raw)
        id == NewRun.device_id
        hasStatus == IsSubstring(Str_status, topic)
        hasSensor == IsSubstring(Str_sensor, topic)
        hasEnergy == IsSubstring(Str_energy, topic)
        statusOnly ==
            /\ NewRun.handler = "handle_device_status"
            /\ HasDeviceLevel(topic) => id \in DOMAIN devices' /\ devices'[id] = payload
            /\ sensor_data' = sensor_data
            /\ energy_consumption' = energy_consumption
            /\ security_events' = security_events
        sensorOnly ==
            /\ NewRun.handler = "handle_sensor_data"
            /\ HasDeviceLevel(topic) => id \in DOMAIN sensor_data' /\ sensor_data'[id] = payload
            /\ devices' = devices
            /\ devices_table' = devices_table
            /\ device_logs' = device_logs
            /\ energy_consumption' = energy_consumption
        energyOnly ==
            /\ NewRun.handler = "handle_energy_data"
            /\ (HasDeviceLevel(topic) /\ payload.t = "object" /\ "power_watts" \in DOMAIN payload.v)
                    => AppendedOne(energy_consumption, energy_consumption')
            /\ devices' = devices
            /\ sensor_data' = sensor_data
            /\ devices_table' = devices_table
            /\ device_logs' = device_logs
            /\ security_events' = security_events
            /\ emitted' = emitted
        noBranch == NewRun.handler = "none" /\ HubSame
    IN  (MessageStep /\ Parses(NewRun.raw)) =>
            IF hasStatus THEN statusOnly
            ELSE IF hasSensor THEN sensorOnly
            ELSE IF hasEnergy THEN energyOnly
            ELSE noBranch

C1_TopicPriority == [][C1_Classified]_vars

\* A topic holding both 'status' and 'sensor' was delivered with a JSON object and only
\* the status dictionary took it.
C1_Witness ==
    /\ Ran
    /\ Last.op = "message"
    /\ IsSubstring(Str_status, Last.topic) /\ IsSubstring(Str_sensor, Last.topic)
    /\ Parses(Last.raw) /\ loads(Last.raw).t = "object"
    /\ Last.handler = "handle_device_status"
    /\ Last.device_id \in DOMAIN devices
    /\ devices[Last.device_id] = loads(Last.raw)
    /\ Last.device_id \notin DOMAIN sensor_data

(***************************************************************************)
(* C2.  For a device of the devices table whose status topic has carried   *)
(* JSON objects only (bodies that are no JSON aside): the entry of the     *)
(* devices dictionary is exactly the object delivered last, no key of an   *)
(* earlier one left in it, and the row's status is that object's 'status', *)
(* or 'online' when it has none.                                           *)
(***************************************************************************)
\* The positions in history of the parsed messages on the status topic of device d.
StatusRuns(d) ==
    {i \in DOMAIN history :
        /\ history[i].op = "message"
        /\ history[i].topic = Topic(d, Str_status)
        /\ Parses(history[i].raw)}
LastOf(S) == CHOOSE i \in S : \A j \in S : j <= i

C2_LastStatusWins ==
    \A d \in DOMAIN devices_table :
        (/\ StatusRuns(d) # {}
         /\ \A i \in StatusRuns(d) : loads(history[i].raw).t = "object")
        => LET payload == loads(history[LastOf(StatusRuns(d))].raw)
           IN  /\ d \in DOMAIN devices
               /\ devices[d] = payload
               /\ devices_table[d].status =
                      IF "status" \in DOMAIN payload.v
                      THEN SqlText(payload.v["status"].v)
                      ELSE SqlText("online")

\* Two status objects were delivered for one seeded device, the first with a 'status'
\* and a 'brightness', the second with neither.
C2_Witness ==
    /\ Len(history) = 2
    /\ \E d \in DOMAIN devices_table :
           /\ StatusRuns(d) = {1, 2}
           /\ loads(history[1].raw) = PayloadStatus
           /\ loads(history[2].raw) = PayloadMotion
           /\ devices[d] = PayloadMotion
           /\ devices_table[d].status = SqlText("online")
           /\ devices_table[d].last_seen # SqlNull

(***************************************************************************)
(* C3.  A status message with a device level in its topic and a JSON       *)
(* object as body appends exactly one device_logs row, of action           *)
(* status_update, for that device and with that object as value, and emits *)
(* exactly one device_update event with the device id and the object; so   *)
(* also for a device id that the devices table does not hold, where the    *)
(* UPDATE changes no row.                                                  *)
(***************************************************************************)
StatusMessageStep ==
    /\ MessageStep
    /\ IsSubstring(Str_status, NewRun.topic)
    /\ HasDeviceLevel(NewRun.topic)
    /\ Parses(NewRun.raw)
    /\ loads(NewRun.raw).t = "object"

C3_OneLogOneUpdate ==
    LET id == split(NewRun.topic, "/")[2]
        payload == loads(NewRun.raw)
    IN  StatusMessageStep =>
            /\ AppendedOne(device_logs, device_logs')
            /\ Newest(device_logs').device_id = id
            /\ Newest(device_logs').action = "status_update"
            /\ loads(Newest(device_logs').value) = payload
            /\ AppendedOne(emitted, emitted')
            /\ Newest(emitted').event = "device_update"
            /\ Newest(emitted').id = id
            /\ Newest(emitted').data = payload
            /\ id \notin DOMAIN devices_table => devices_table' = devices_table

C3_StatusLoggedAndEmitted == [][C3_OneLogOneUpdate]_vars

\* A status object was delivered for fan1, which has no row: it is logged and emitted,
\* and the table is as seeded.
C3_Witness ==
    /\ Ran
    /\ Last.op = "message"
    /\ Last.topic = Topic(fan1, Str_status)
    /\ fan1 \notin DOMAIN devices_table
    /\ loads(Last.raw) = PayloadStatus
    /\ Len(device_logs) = 1
    /\ device_logs[1].device_id = fan1 /\ device_logs[1].action = "status_update"
    /\ loads(device_logs[1].value) = PayloadStatus
    /\ Len(emitted) = 2
    /\ emitted[2].event = "device_update" /\ emitted[2].id = fan1
    /\ emitted[2].data = PayloadStatus
    /\ devices_table = sample_devices

(***************************************************************************)
(* C4.  After a status message with a JSON object for a device of the      *)
(* devices table, the row as get_devices returns it shows the object's     *)
(* fields beside its status: its config holds the brightness the object    *)
(* carries.  (The UPDATE of handle_device_status writes status and         *)
(* last_seen only, so the config column stays as seeded.)                  *)
(***************************************************************************)
C4_RowReflectsPayloadFields ==
    (/\ Ran
     /\ Last.op = "message"
     /\ Last.handler = "handle_device_status"
     /\ Last.device_id \in DOMAIN devices_table
     /\ loads(Last.raw).t = "object"
     /\ "brightness" \in DOMAIN loads(Last.raw).v)
    => /\ get_devices[Last.device_id].status = StatusValue(loads(Last.raw))
       /\ "brightness" \in DOMAIN get_devices[Last.device_id].config.v
       /\ get_devices[Last.device_id].config.v["brightness"]
              = loads(Last.raw).v["brightness"]

(***************************************************************************)
(* C5.  A sensor message (a topic with 'sensor' and without 'status') with *)
(* a device level and a JSON object as body: when the object's             *)
(* motion_detected is truthy, exactly one security_events row of type      *)
(* motion_detected is appended for that device and exactly one             *)
(* security_alert is emitted for it; when it is absent or falsy, no row    *)
(* and no event.  Either way the sensor_data entry of the device becomes   *)
(* the object.                                                             *)
(***************************************************************************)
SensorMessageStep ==
    /\ MessageStep
    /\ ~IsSubstring(Str_status, NewRun.topic)
    /\ IsSubstring(Str_sensor, NewRun.topic)
    /\ HasDeviceLevel(NewRun.topic)
    /\ Parses(NewRun.raw)
    /\ loads(NewRun.raw).t = "object"

C5_OneAlertPerMotion ==
    LET id == split(NewRun.topic, "/")[2]
        payload == loads(NewRun.raw)
        motion == "motion_detected" \in DOMAIN payload.v /\ Truthy(payload.v["motion_detected"])
    IN  SensorMessageStep =>
            /\ id \in DOMAIN sensor_data' /\ sensor_data'[id] = payload
            /\ IF motion
               THEN /\ AppendedOne(security_events, security_events')
                    /\ Newest(security_events').sensor_id = id
                    /\ Newest(security_events').event_type = "motion_detected"
                    /\ AppendedOne(emitted, emitted')
                    /\ Newest(emitted').event = "security_alert"
                    /\ Newest(emitted').id = id
               ELSE /\ security_events' = security_events
                    /\ emitted' = emitted

C5_MotionRaisesOneAlert == [][C5_OneAlertPerMotion]_vars

\* The motion sensor reported motion and then its end: one row and one alert in all,
\* and the dictionary holds the second report.
C5_Witness ==
    /\ Len(history) = 2
    /\ history[1].topic = Topic(motion_sensor_entrance, Str_sensor)
    /\ history[2].topic = Topic(motion_sensor_entrance, Str_sensor)
    /\ loads(history[1].raw) = PayloadMotion
    /\ loads(history[2].raw) = PayloadNoMotion
    /\ Len(security_events) = 1
    /\ security_events[1].sensor_id = motion_sensor_entrance
    /\ Cardinality({i \in DOMAIN emitted : emitted[i].event = "security_alert"}) = 1
    /\ sensor_data[motion_sensor_entrance] = PayloadNoMotion

(***************************************************************************)
(* C6.  A message on the energy topic smarthome/<id>/energy of a device id *)
(* (the seeded ones among them) with a JSON object as body appends exactly *)
(* one energy_consumption row for that id when the object holds            *)
(* power_watts, and none when it does not.  (The id motion_sensor_entrance *)
(* holds 'sensor', so its energy topic is taken by the sensor branch.)     *)
(***************************************************************************)
C6_EnergyStep ==
    LET id == split(NewRun.topic, "/")[2]
        payload == loads(NewRun.raw)
    IN  (/\ MessageStep
         /\ \E d \in DeviceIds : NewRun.topic = Topic(d, Str_energy)
         /\ Parses(NewRun.raw)
         /\ payload.t = "object")
        => /\ error' = "none"
           /\ IF "power_watts" \in DOMAIN payload.v
              THEN /\ AppendedOne(energy_consumption, energy_consumption')
                   /\ Newest(energy_consumption').device_id = id
              ELSE energy_consumption' = energy_consumption

C6_EnergyTopicAppendsSample == [][C6_EnergyStep]_vars

(***************************************************************************)
(* C7.  A message whose topic has no second level, or an empty one, and    *)
(* that reaches any of the three branches changes nothing: not the two     *)
(* dictionaries, not a table, not what was emitted or published; and no    *)
(* exception is caught when its body parses.                               *)
(***************************************************************************)
NoDeviceTopics ==
    {Str_status} \cup {Topic(EmptyStr, c) : c \in {Str_status, Str_sensor, Str_energy}}

C7_NoDeviceStep ==
    (MessageStep /\ NewRun.topic \in NoDeviceTopics)
    => /\ HubSame
       /\ Parses(NewRun.raw) => error' = "none"

C7_NoDeviceIdNoEffect == [][C7_NoDeviceStep]_vars

\* A single-level topic and a topic with an empty device level were delivered with JSON
\* objects, the second to the energy branch with a power reading, and nothing is
\* recorded.
C7_Witness ==
    /\ Len(history) = 2
    /\ history[1].topic = Str_status
    /\ history[1].device_id = None
    /\ history[1].handler = "handle_device_status"
    /\ loads(history[1].raw) = PayloadStatus
    /\ history[2].topic = Topic(EmptyStr, Str_energy)
    /\ history[2].device_id = EmptyStr
    /\ history[2].handler = "handle_energy_data"
    /\ loads(history[2].raw) = PayloadPower
    /\ devices = <<>> /\ sensor_data = <<>>
    /\ device_logs = <<>> /\ energy_consumption = <<>> /\ security_events = <<>>
    /\ devices_table = sample_devices
    /\ error = "none"

(***************************************************************************)
(* C8.  A message whose body is no JSON, or JSON that is no object, is     *)
(* dropped whatever its topic: the two dictionaries, the tables and what   *)
(* was emitted stay as they were.  (The handlers store the body in the     *)
(* dictionary before payload.get fails on a list.)                         *)
(***************************************************************************)
C8_MalformedStep ==
    (/\ MessageStep
     /\ ~Parses(NewRun.raw) \/ loads(NewRun.raw).t # "object")
    => HubSame

C8_MalformedPayloadDropped == [][C8_MalformedStep]_vars

(***************************************************************************)
(* C9.  A message on the control topic smarthome/<id>/control of a device  *)
(* id (the seeded ones among them), such as the hub's own command coming   *)
(* back through its control subscription, changes nothing.  (The id        *)
(* motion_sensor_entrance holds 'sensor', so its control topic is taken by *)
(* the sensor branch.)                                                     *)
(***************************************************************************)
C9_ControlStep ==
    (/\ MessageStep
     /\ \E d \in DeviceIds : NewRun.topic = Topic(d, Str_control))
    => HubSame

C9_ControlTopicNotConsumed == [][C9_ControlStep]_vars

(***************************************************************************)
(* C10.  A control request answered while the MQTT client is connected     *)
(* makes exactly one publish, of the command as json.dumps writes it, on   *)
(* the device's control topic, and then exactly one device_logs row of     *)
(* action control_command for the device with the same text; and every     *)
(* control_command row there is has an earlier publish call of its text    *)
(* on its device's control topic.                                          *)
(***************************************************************************)
C10_ControlStep ==
    LET id == NewRun.device_id
        text == dumps(loads(NewRun.raw))
    IN  (Stepped /\ NewRun.op = "control" /\ connected /\ Parses(NewRun.raw))
        => /\ AppendedOne(published, published')
           /\ Newest(published').topic = smarthome \o Slash \o id \o Slash \o Str_control
           /\ Newest(published').payload = text
           /\ Newest(published').rc = "MQTT_ERR_SUCCESS"
           /\ AppendedOne(device_logs, device_logs')
           /\ Newest(device_logs').device_id = id
           /\ Newest(device_logs').action = "control_command"
           /\ Newest(device_logs').value = text
           /\ Newest(published').at < Newest(device_logs').timestamp.v

C10_LoggedAfterPublish ==
    \A i \in DOMAIN device_logs :
        device_logs[i].action = "control_command"
        => \E j \in DOMAIN published :
               /\ published[j].topic =
                      smarthome \o Slash \o device_logs[i].device_id \o Slash \o Str_control
               /\ published[j].payload = device_logs[i].value
               /\ published[j].at < device_logs[i].timestamp.v

C10_PublishThenLog == [][C10_ControlStep]_vars /\ []C10_LoggedAfterPublish

\* Connected, the hub was asked to switch fan1 on: one accepted publish on
\* smarthome/fan1/control, then one control_command row with the same text.
C10_Witness ==
    /\ connected
    /\ Ran
    /\ Last.op = "control"
    /\ Last.device_id = fan1
    /\ loads(Last.raw) = CommandOn
    /\ Len(published) = 1
    /\ published[1].topic = Topic(fan1, Str_control)
    /\ published[1].payload = dumps(CommandOn)
    /\ published[1].rc = "MQTT_ERR_SUCCESS"
    /\ Len(device_logs) = 1
    /\ device_logs[1].action = "control_command"
    /\ device_logs[1].value = dumps(CommandOn)
    /\ published[1].at < device_logs[1].timestamp.v
    /\ response = Response(TRUE, 200)

(***************************************************************************)
(* The broker connection and the store, as the hub's surroundings change   *)
(* them.                                                                   *)
(***************************************************************************)
\* The number of times the client connects in a behaviour that loses the connection.
MaxConnects == 2

\* The successful connects so far: each emitted one mqtt_status.
Connects == Cardinality({i \in DOMAIN emitted : emitted[i].event = "mqtt_status"})

\* The connection is lost.  init_mqtt registers on_connect and on_message only, so no
\* callback of the hub runs; the session is a clean one (mqtt.Client()'s default), so
\* the broker forgets the subscriptions.  The loop thread started by loop_start then
\* reconnects, which runs on_mqtt_connect again.
Disconnect ==
    /\ connected
    /\ Connects < MaxConnects
    /\ connected' = FALSE
    /\ subscriptions' = {}
    /\ UNCHANGED <<devices, sensor_data, devices_table, device_logs, energy_consumption,
                   security_events, emitted, published, now, error, response, history,
                   db_fails, returned, inbox, pc>>

\* The database file stops taking statements (locked, the disk full, not writable), and
\* takes them again.
StoreFault ==
    /\ ~db_fails
    /\ db_fails' = TRUE
    /\ UNCHANGED <<devices, sensor_data, devices_table, device_logs, energy_consumption,
                   security_events, emitted, published, connected, subscriptions, now,
                   error, response, history, returned, inbox, pc>>

StoreRepair ==
    /\ db_fails
    /\ db_fails' = FALSE
    /\ UNCHANGED <<devices, sensor_data, devices_table, device_logs, energy_consumption,
                   security_events, emitted, published, connected, subscriptions, now,
                   error, response, history, returned, inbox, pc>>

(***************************************************************************)
(* ai_command: the natural-language route.  The Gemini call is taken by    *)
(* its outcome: it raises, or it returns a text.                           *)
(***************************************************************************)
\* os.getenv('GEMINI_API_KEY'): None when the variable is not set.
GeminiKey == <<"k", "e", "y">>
ApiKeys == {None, GeminiKey}

\* action.get('device_id') as a text; the translations name a device by a JSON string
\* or not at all.
ActionId(action) ==
    LET j == Get(action, "device_id", JNull)
    IN  IF j.t = "string" THEN j.v ELSE None

\* ActionPublishes as `if device_id` alone would decide it.
ActionPublishes_id_only(action) == TruthyId(ActionId(action))

\* `if device_id and command`
ActionPublishes(action) ==
    TruthyId(ActionId(action)) /\ Truthy(Get(action, "command", JNull))

\* The publish calls of the loop over the actions from the i-th on, the first at instant
\* at.  action.get raises on an action that is no dict, which ends the loop.
RECURSIVE BatchPublishes(_, _, _)
BatchPublishes(actions, i, at) ==
    IF i > Len(actions) THEN <<>>
    ELSE IF ~HasGet(actions[i]) THEN <<>>
    ELSE IF ActionPublishes(actions[i])
    THEN <<Publish(Topic(ActionId(actions[i]), Str_control),
                   dumps(Get(actions[i], "command", JNull)), at)>>
         \o BatchPublishes(actions, i + 1, at + 1)
    ELSE BatchPublishes(actions, i + 1, at)

BatchRaises(actions) == \E i \in DOMAIN actions : ~HasGet(actions[i])

\* AiFailure as an answer that carries the error and still says success.
AiFailure_success(e) == [success |-> TRUE, code |-> 200, error |-> e]

\* jsonify({'success': False, 'error': str(e)}), with the status code left at 200.
AiFailure(e) == [success |-> FALSE, code |-> 200, error |-> e]

\* The body of the successful answer.
AiSuccess(ai_response) ==
    [success |-> TRUE, code |-> 200,
     response |-> Get(ai_response, "response", JStr("Commands executed")),
     actions |-> Get(ai_response, "actions", JArr(<<>>))]

ai_command(body, api_key, translation) ==
    /\ Len(history) < MaxOps
    /\ history' =
           Append(history,
                  Run("ai", EmptyStr, None,
                      [body |-> body, api_key |-> api_key, translation |-> translation],
                      "ai_command"))
    /\ returned' = "Response"
    /\ IF ~Parses(body)
       THEN \* request.json raises BadRequest
            /\ UNCHANGED <<published, now>>
            /\ error' = "BadRequest"
            /\ response' = AiFailure("BadRequest")
       ELSE IF ~HasGet(loads(body))
       THEN /\ UNCHANGED <<published, now>>
            /\ error' = "AttributeError"
            /\ response' = AiFailure("AttributeError")
       ELSE IF ~TruthyId(api_key)
       THEN \* returned from inside the try: no exception
            /\ UNCHANGED <<published, now>>
            /\ error' = "none"
            /\ response' = AiFailure("Gemini API key not configured")
       ELSE IF db_fails
       THEN \* the SELECT of the device list raises
            /\ UNCHANGED <<published, now>>
            /\ error' = "OperationalError"
            /\ response' = AiFailure("OperationalError")
       ELSE IF translation.raises
       THEN \* model.generate_content raises
            /\ UNCHANGED <<published, now>>
            /\ error' = "GenerationError"
            /\ response' = AiFailure("GenerationError")
       ELSE IF ~Parses(translation.text)
       THEN /\ UNCHANGED <<published, now>>
            /\ error' = "JSONDecodeError"
            /\ response' = AiFailure("JSONDecodeError")
       ELSE IF ~HasGet(loads(translation.text))
       THEN \* ai_response.get on a list
            /\ UNCHANGED <<published, now>>
            /\ error' = "AttributeError"
            /\ response' = AiFailure("AttributeError")
       ELSE LET ai_response == loads(translation.text)
                actions == Get(ai_response, "actions", JArr(<<>>)).v
                calls == BatchPublishes(actions, 1, now + 1)
            IN  /\ published' = published \o calls
                /\ now' = now + Len(calls)
                /\ IF BatchRaises(actions)
                   THEN /\ error' = "AttributeError"
                        /\ response' = AiFailure("AttributeError")
                   ELSE /\ error' = "none"
                        /\ response' = AiSuccess(ai_response)
    /\ UNCHANGED <<devices, sensor_data, devices_table, device_logs, energy_consumption,
                   security_events, emitted, connected, subscriptions, db_fails, inbox, pc>>

(***************************************************************************)
(* The read routes: SELECTs only.                                          *)
(***************************************************************************)
\* The rows of a table in reverse insertion order (ORDER BY timestamp DESC: the clock
\* gives later rows later timestamps), at most limit of them.
RECURSIVE NewestFirst(_, _)
NewestFirst(table, limit) ==
    IF table = <<>> \/ limit = 0 THEN <<>>
    ELSE <<table[Len(table)]>> \o NewestFirst(SubSeq(table, 1, Len(table) - 1), limit - 1)

\* security_events(): the ten newest rows.
security_events_rows == NewestFirst(security_events, 10)

\* The power readings of device id, in insertion order.
RECURSIVE ReadingsOf(_, _)
ReadingsOf(table, id) ==
    IF table = <<>> THEN <<>>
    ELSE (IF Head(table).device_id = id THEN <<Head(table).power_watts.v>> ELSE <<>>)
         \o ReadingsOf(Tail(table), id)

RECURSIVE SumOf(_)
SumOf(s) == IF s = <<>> THEN 0 ELSE Head(s) + SumOf(Tail(s))

RECURSIVE MaxOf(_)
MaxOf(s) ==
    IF Len(s) = 1 THEN Head(s)
    ELSE LET m == MaxOf(Tail(s)) IN IF Head(s) > m THEN Head(s) ELSE m

\* energy_summary(): per device of the devices table with readings (the JOIN drops the
\* others), the average, kept as the sum and the count it divides, and the peak.  All
\* instants of a behaviour fall on the day of the request.
energy_summary_rows ==
    [id \in {d \in DOMAIN devices_table : ReadingsOf(energy_consumption, d) # <<>>} |->
        [device |-> devices_table[id].name,
         avg_power |-> [sum |-> SumOf(ReadingsOf(energy_consumption, id)),
                        count |-> Len(ReadingsOf(energy_consumption, id))],
         peak_power |-> MaxOf(ReadingsOf(energy_consumption, id))]]

\* A read route answers with its rows; none of them has a try, so a failing SELECT
\* becomes Flask's 500.
ReadRoute(route) ==
    /\ Len(history) < MaxOps
    /\ history' = Append(history, Run("read", EmptyStr, None, NotJson, route))
    /\ returned' = "Response"
    /\ IF db_fails
       THEN /\ error' = "OperationalError"
            /\ response' = [success |-> FALSE, code |-> 500]
       ELSE /\ error' = "none"
            /\ response' =
                   [code |-> 200,
                    body |-> CASE route = "get_devices" -> get_devices
                               [] route = "energy_summary" -> energy_summary_rows
                               [] route = "security_events" -> security_events_rows]
    /\ UNCHANGED <<devices, sensor_data, devices_table, device_logs, energy_consumption,
                   security_events, emitted, published, connected, subscriptions, now,
                   db_fails, inbox, pc>>

(***************************************************************************)
(* The hub with all its routes and a connection that can be lost; and the  *)
(* hub's writing paths with a store that can fail.                         *)
(***************************************************************************)
\* The messages of the devices as test_devices.py sends them: a status of a seeded device
\* and of one without a row, a second status of other fields, a motion report, a power
\* reading.
HubMessages ==
    <<[topic |-> Topic(living_room_light, Str_status), raw |-> dumps(PayloadStatus)],
      [topic |-> Topic(living_room_light, Str_status), raw |-> dumps(PayloadPower)],
      [topic |-> Topic(fan1, Str_status), raw |-> dumps(PayloadStatus)],
      [topic |-> Topic(motion_sensor_entrance, Str_sensor), raw |-> dumps(PayloadMotion)],
      [topic |-> Topic(living_room_light, Str_energy), raw |-> dumps(PayloadPower)]>>

\* The translated actions: two that name a device and a command, one without a command,
\* and a text where an action should be.
ActionFanOn == JObj([device_id |-> JStr(fan1), command |-> CommandOn])
ActionLightOff == JObj([device_id |-> JStr(living_room_light), command |-> CommandOff])
ActionNoCommand == JObj([device_id |-> JStr(living_room_light)])
ActionText == JStr("living_room_light off")
\* Actions that lack the device id (no key, null, '') or the command (null, {}).
ActionNoId == JObj([command |-> CommandOn])
ActionNullId == JObj([device_id |-> JNull, command |-> CommandOn])
ActionEmptyId == JObj([device_id |-> JStr(EmptyStr), command |-> CommandOn])
ActionNullCommand == JObj([device_id |-> JStr(fan1), command |-> JNull])
ActionEmptyCommand == JObj([device_id |-> JStr(fan1), command |-> JObj(<<>>)])
Result(actions) == JObj([actions |-> JArr(actions), response |-> JStr("Done")])
Raised == [raises |-> TRUE, text |-> NotJson]
Returned(text) == [raises |-> FALSE, text |-> text]

\* What the Gemini call comes to: it raises; it returns no JSON; it returns a result with
\* two actions, with a text between two actions, with an action that lacks its command,
\* without the actions key; it returns a JSON list; it returns a result whose actions
\* lack the device id or the command in every way, with two whole actions among them.
Translations ==
    <<Raised,
      Returned(NotJson),
      Returned(JsonText("compact", Result(<<ActionFanOn, ActionLightOff>>))),
      Returned(JsonText("compact", Result(<<ActionFanOn, ActionText, ActionLightOff>>))),
      Returned(JsonText("compact", Result(<<ActionNoCommand, ActionLightOff>>))),
      Returned(JsonText("compact", JObj([response |-> JStr("Nothing to do")]))),
      Returned(JsonText("compact", JArr(<<ActionFanOn>>))),
      Returned(JsonText("compact",
                        Result(<<ActionNullId, ActionFanOn, ActionEmptyCommand, ActionEmptyId,
                                 ActionNullCommand, ActionNoId, ActionLightOff>>)))>>

AiBody == JsonText("compact", JObj([command |-> JStr("fan on, light off")]))

\* The requests made of ai_command: every translation under a configured key, then one
\* without the key and one whose body is no JSON.
AiRequests ==
    [j \in DOMAIN Translations |->
        [body |-> AiBody, api_key |-> GeminiKey, translation |-> Translations[j]]]
    \o <<[body |-> AiBody, api_key |-> None, translation |-> Translations[3]],
         [body |-> NotJson, api_key |-> GeminiKey, translation |-> Translations[3]]>>

Ingest ==
    /\ connected
    /\ Len(history) < MaxOps
    /\ UNCHANGED <<inbox, pc>>
    /\ \E i \in DOMAIN HubMessages : on_mqtt_message(HubMessages[i].topic, HubMessages[i].raw)

AiCommand ==
    \E i \in DOMAIN AiRequests :
        ai_command(AiRequests[i].body, AiRequests[i].api_key, AiRequests[i].translation)

Read == \E route \in {"get_devices", "energy_summary", "security_events"} : ReadRoute(route)

NextHub ==
    \/ Connect
    \/ Disconnect
    \/ Ingest
    \/ Loopback
    \/ Control
    \/ AiCommand
    \/ Read

SpecHub == Init /\ [][NextHub]_vars

NextStore ==
    \/ Connect
    \/ StoreFault
    \/ StoreRepair
    \/ Ingest
    \/ Control
    \/ Read

SpecStore == Init /\ [][NextStore]_vars

(***************************************************************************)
(* C11.  A control request answered while the MQTT client holds no broker  *)
(* connection (never connected, or the connection lost) is answered with a *)
(* failure: success false and an error status, never success.  (paho's     *)
(* publish returns MQTT_ERR_NO_CONN and raises nothing, and control_device *)
(* does not look at what publish returns.)                                 *)
(***************************************************************************)
C11_DisconnectedStep ==
    (Stepped /\ NewRun.op = "control" /\ ~connected /\ Parses(NewRun.raw))
    => /\ response'.success = FALSE
       /\ response'.code # 200

C11_DisconnectedControlFails == [][C11_DisconnectedStep]_vars

(***************************************************************************)
(* Vocabulary of the properties of ai_command.                             *)
(***************************************************************************)
\* The run reached the loop over the actions: the request and the key were there and
\* the translation returned a JSON object.
ReachedActions(run) ==
    /\ run.op = "ai"
    /\ Parses(run.raw.body)
    /\ run.raw.api_key = GeminiKey
    /\ ~run.raw.translation.raises
    /\ Parses(run.raw.translation.text)
    /\ loads(run.raw.translation.text).t = "object"
TranslatedActions(run) ==
    LET result == loads(run.raw.translation.text).v
    IN  IF "actions" \in DOMAIN result THEN result["actions"].v ELSE <<>>
\* The action names a device and a command.
WellFormed(action) ==
    /\ action.t = "object"
    /\ "device_id" \in DOMAIN action.v /\ action.v["device_id"].t = "string"
    /\ action.v["device_id"].v # EmptyStr
    /\ "command" \in DOMAIN action.v /\ action.v["command"].t = "object"
    /\ DOMAIN action.v["command"].v # {}
\* The publish calls of a step.
NewPublishes == SubSeq(published', Len(published) + 1, Len(published'))
Accepted(calls) == {k \in DOMAIN calls : calls[k].rc = "MQTT_ERR_SUCCESS"}

(***************************************************************************)
(* C12.  A natural-language request whose translation gives N actions      *)
(* attempts every action that names a device and a command, whatever       *)
(* happens to the others, and its answer reports as executed exactly the   *)
(* actions whose publish the broker connection took: N minus the failed    *)
(* ones.  (The answer repeats the whole translated list and has no count   *)
(* and no failures in it; and an action that is no object ends the loop    *)
(* and fails the request.)                                                 *)
(***************************************************************************)
C12_BatchStep ==
    LET actions == TranslatedActions(NewRun)
    IN  (Stepped /\ ReachedActions(NewRun))
        => /\ Len(NewPublishes) = Cardinality({k \in DOMAIN actions : WellFormed(actions[k])})
           /\ response'.success = TRUE
           /\ Len(response'.actions.v) = Cardinality(Accepted(NewPublishes))

C12_BatchReportsExecuted == [][C12_BatchStep]_vars

(***************************************************************************)
(* C13.  Every publish a natural-language request makes comes with what a  *)
(* control request does beside its publish: one device_logs row of action  *)
(* control_command for the same device with the same text, so the request  *)
(* appends as many control_command rows as it makes publishes.  (The loop  *)
(* of ai_command calls mqtt_client.publish itself and writes no row.)      *)
(***************************************************************************)
C13_BatchStep ==
    LET calls == NewPublishes
    IN  (Stepped /\ NewRun.op = "ai")
        => /\ Len(device_logs') = Len(device_logs) + Len(calls)
           /\ \A k \in DOMAIN calls :
                  LET row == device_logs'[Len(device_logs) + k]
                  IN  /\ row.action = "control_command"
                      /\ Topic(row.device_id, Str_control) = calls[k].topic
                      /\ row.value = calls[k].payload

C13_BatchLogsLikeControl == [][C13_BatchStep]_vars

(***************************************************************************)
(* C14.  A natural-language request whose translation fails (the API key   *)
(* is not configured, the Gemini call raises, or the text it returns is    *)
(* no JSON or no JSON object) is answered with success false, and it makes *)
(* no publish and writes no device_logs row.                               *)
(***************************************************************************)
TranslationFailed(run) ==
    /\ run.op = "ai"
    /\ Parses(run.raw.body)
    /\ \/ run.raw.api_key = None
       \/ run.raw.translation.raises
       \/ ~Parses(run.raw.translation.text)
       \/ loads(run.raw.translation.text).t # "object"

C14_FailedStep ==
    (Stepped /\ TranslationFailed(NewRun))
    => /\ response'.success = FALSE
       /\ published' = published
       /\ device_logs' = device_logs

C14_TranslationFailureNoDispatch == [][C14_FailedStep]_vars

\* After a control request that published and logged, a natural-language request whose
\* Gemini call raised: it is answered with a failure and there is still the one publish
\* and the one row.
C14_Witness ==
    /\ Len(history) = 2
    /\ connected
    /\ history[1].op = "control"
    /\ history[2].op = "ai"
    /\ history[2].raw.api_key = GeminiKey
    /\ history[2].raw.translation.raises
    /\ response = AiFailure("GenerationError")
    /\ Len(published) = 1
    /\ Len(device_logs) = 1

(***************************************************************************)
(* on_mqtt_message as the other threads of the process see it.  paho calls *)
(* it on the one thread loop_start started, for one PUBLISH packet after   *)
(* the other in the order they came, while packets keep arriving and the   *)
(* Flask threads may look at the dictionaries between its statements.  It  *)
(* is taken in two steps: up to the assignment to the dictionary (one      *)
(* store of a reference to the parsed payload), and the rest; every state  *)
(* between two steps is one a Flask thread can see.                        *)
(***************************************************************************)
\* The number of PUBLISH packets that arrive in a behaviour.
MaxMessages == 4

\* Two status messages each for two devices, and two reports of the motion sensor.
ThreadMessages ==
    <<[topic |-> Topic(living_room_light, Str_status), raw |-> dumps(PayloadStatus)],
      [topic |-> Topic(living_room_light, Str_status), raw |-> dumps(PayloadPower)],
      [topic |-> Topic(fan1, Str_status), raw |-> dumps(PayloadStatus)],
      [topic |-> Topic(fan1, Str_status), raw |-> dumps(PayloadMotion)],
      [topic |-> Topic(motion_sensor_entrance, Str_sensor), raw |-> dumps(PayloadMotion)],
      [topic |-> Topic(motion_sensor_entrance, Str_sensor), raw |-> dumps(PayloadNoMotion)]>>

\* A PUBLISH packet arrives on the connection.
Arrive ==
    /\ connected
    /\ Len(history) + Len(inbox) < MaxMessages
    /\ \E i \in DOMAIN ThreadMessages : inbox' = Append(inbox, ThreadMessages[i])
    /\ UNCHANGED <<devices, sensor_data, devices_table, device_logs, energy_consumption,
                   security_events, emitted, published, connected, subscriptions, now,
                   error, response, history, db_fails, returned, pc>>

\* The loop thread takes the oldest packet and runs on_mqtt_message up to the
\* assignment devices[device_id] = payload or sensor_data[device_id] = payload.
Begin ==
    /\ pc = "idle"
    /\ inbox # <<>>
    /\ pc' = "handling"
    /\ LET topic == Head(inbox).topic
           raw == Head(inbox).raw
           device_id == DeviceIdOf(topic)
       IN  IF Parses(raw) /\ TruthyId(device_id) /\ Route(topic) = "handle_device_status"
           THEN /\ devices' = DictSet(devices, device_id, loads(raw))
                /\ UNCHANGED sensor_data
           ELSE IF Parses(raw) /\ TruthyId(device_id) /\ Route(topic) = "handle_sensor_data"
           THEN /\ sensor_data' = DictSet(sensor_data, device_id, loads(raw))
                /\ UNCHANGED devices
           ELSE UNCHANGED <<devices, sensor_data>>
    /\ UNCHANGED <<devices_table, device_logs, energy_consumption, security_events,
                   emitted, published, connected, subscriptions, now, error, response,
                   history, db_fails, returned, inbox>>

\* The rest of on_mqtt_message for that packet.  (The dictionary holds the payload
\* already; the assignment in the handler writes the same value.)
Finish ==
    /\ pc = "handling"
    /\ pc' = "idle"
    /\ inbox' = Tail(inbox)
    /\ on_mqtt_message(Head(inbox).topic, Head(inbox).raw)

NextThreads == Connect \/ Arrive \/ Begin \/ Finish

SpecThreads == Init /\ [][NextThreads]_vars

(***************************************************************************)
(* C15.  With the status and sensor messages of several devices arriving   *)
(* interleaved, in every state another thread can see, the devices entry   *)
(* of a device id is the whole payload of the last status message for that *)
(* id that on_mqtt_message has got to (and there is no entry when there    *)
(* was none), and likewise the sensor_data entry and the sensor messages:  *)
(* a message for one id never changes the entry of another, and no entry   *)
(* is ever a part or a mixture of payloads.  When all that arrived is      *)
(* handled, each entry is the last message that arrived for its device.    *)
(***************************************************************************)
\* The messages on_mqtt_message has got to, in order: the handled ones and the one in
\* hand.
Begun ==
    [i \in 1..Len(history) |-> [topic |-> history[i].topic, raw |-> history[i].raw]]
    \o (IF pc = "handling" THEN <<Head(inbox)>> ELSE <<>>)
BegunOn(topic) == {i \in DOMAIN Begun : Begun[i].topic = topic}
EntryIsLast(dict, d, topic) ==
    IF BegunOn(topic) = {} THEN d \notin DOMAIN dict
    ELSE d \in DOMAIN dict /\ dict[d] = loads(Begun[LastOf(BegunOn(topic))].raw)

C15_EntriesAreLastMessages ==
    \A d \in DeviceIds :
        /\ EntryIsLast(devices, d, smarthome \o Slash \o d \o Slash \o Str_status)
        /\ EntryIsLast(sensor_data, d, smarthome \o Slash \o d \o Slash \o Str_sensor)

\* Status messages of two devices were handled in turn, light, fan, light, and a second
\* one of the fan is in hand, stored and not yet logged: each entry is its device's last.
C15_Witness ==
    /\ Len(history) = 3
    /\ pc = "handling"
    /\ history[1].topic = Topic(living_room_light, Str_status)
    /\ history[2].topic = Topic(fan1, Str_status)
    /\ history[3].topic = Topic(living_room_light, Str_status)
    /\ loads(history[1].raw) = PayloadStatus
    /\ loads(history[2].raw) = PayloadStatus
    /\ loads(history[3].raw) = PayloadPower
    /\ Head(inbox).topic = Topic(fan1, Str_status)
    /\ loads(Head(inbox).raw) = PayloadMotion
    /\ devices[living_room_light] = PayloadPower
    /\ devices[fan1] = PayloadMotion
    /\ Len(device_logs) = 3

(***************************************************************************)
(* C16.  In every state, a store failure during a status message behind    *)
(* it or not, when the devices dictionary holds payload p for device d,    *)
(* device_logs has a status_update row for d, and the newest such row has  *)
(* p as its value.  (handle_device_status assigns to the dictionary before *)
(* it opens the database; when the UPDATE or the INSERT raises, the        *)
(* dictionary keeps a payload that was never logged.)                      *)
(***************************************************************************)
StatusRows(d) ==
    {i \in DOMAIN device_logs :
        device_logs[i].device_id = d /\ device_logs[i].action = "status_update"}

C16_MemoryMatchesLog ==
    \A d \in DOMAIN devices :
        /\ StatusRows(d) # {}
        /\ loads(device_logs[LastOf(StatusRows(d))].value) = devices[d]

(***************************************************************************)
(* C17.  A message or a control request during which the store fails gives *)
(* a failure back to its caller: the run returns a result and the result   *)
(* says that it failed.  (control_device answers 500 with success false;   *)
(* on_mqtt_message catches the exception, prints it and returns None, as   *)
(* it does for a message it handled.)                                      *)
(***************************************************************************)
C17_StoreFailureStep ==
    (/\ Stepped
     /\ NewRun.op \in {"message", "control"}
     /\ error' = "OperationalError")
    => /\ returned' = "Response"
       /\ response'.success = FALSE

C17_StoreFailureSurfaced == [][C17_StoreFailureStep]_vars

(***************************************************************************)
(* C18.  Every connect that succeeds, the first and every one after a lost *)
(* connection, leaves the client subscribed to the four filters            *)
(* smarthome/+/status, smarthome/+/control, smarthome/+/sensor and         *)
(* smarthome/+/energy; a connect that fails subscribes to nothing; so      *)
(* whenever the client is connected it is subscribed to all four, and      *)
(* while it is not it is subscribed to none.                               *)
(***************************************************************************)
FourFilters ==
    {smarthome \o Slash \o Plus \o Slash \o class :
        class \in {Str_status, Str_control, Str_sensor, Str_energy}}

C18_ConnectStep ==
    /\ (~connected /\ connected') => subscriptions' = FourFilters
    /\ (subscriptions' # subscriptions /\ subscriptions' # {}) => (~connected /\ connected')

C18_SubscribedWhenConnected ==
    IF connected THEN subscriptions = FourFilters ELSE subscriptions = {}

C18_ResubscribesOnConnect == [][C18_ConnectStep]_vars /\ []C18_SubscribedWhenConnected

\* The connection was lost and made again: second mqtt_status, all four filters.
C18_Witness ==
    /\ connected
    /\ Connects = 2
    /\ Cardinality(subscriptions) = 4
    /\ subscriptions = FourFilters

(***************************************************************************)
(* C19.  The web clients are told of every change of the broker            *)
(* connection, the loss of it as well as the making of it: the last        *)
(* mqtt_status event emitted says whether the client is connected now.     *)
(* (Only on_mqtt_connect emits mqtt_status, with connected true; no        *)
(* on_disconnect callback is registered.)                                  *)
(***************************************************************************)
StatusSignals == {i \in DOMAIN emitted : emitted[i].event = "mqtt_status"}

C19_LastSignalMatchesConnection ==
    StatusSignals # {}
    => emitted[LastOf(StatusSignals)].data = JObj([connected |-> JBool(connected)])

(***************************************************************************)
(* C20.  The tables device_logs, energy_consumption and security_events    *)
(* only grow at their end: whatever the hub does (a status, sensor or      *)
(* energy message, a control request, a natural-language request, a read   *)
(* route, a connect), each table after the step begins with the table      *)
(* before it, every earlier row as it was.                                 *)
(***************************************************************************)
IsPrefix(before, after) ==
    Len(before) <= Len(after) /\ SubSeq(after, 1, Len(before)) = before

C20_AppendStep ==
    /\ IsPrefix(device_logs, device_logs')
    /\ IsPrefix(energy_consumption, energy_consumption')
    /\ IsPrefix(security_events, security_events')

C20_TablesAppendOnly == [][C20_AppendStep]_vars

\* A control request for the living room light, then a status message of that light:
\* the control_command row is still the first row, the status_update row after it.
C20_Witness ==
    /\ Len(history) = 2
    /\ history[1].op = "control" /\ history[1].device_id = living_room_light
    /\ history[2].op = "message"
    /\ history[2].topic = Topic(living_room_light, Str_status)
    /\ Len(device_logs) = 2
    /\ device_logs[1].action = "control_command"
    /\ device_logs[1].device_id = living_room_light
    /\ device_logs[1].value = dumps(loads(history[1].raw))
    /\ device_logs[2].action = "status_update"
    /\ device_logs[2].device_id = living_room_light
    /\ device_logs[1].timestamp.v < device_logs[2].timestamp.v

(***************************************************************************)
(* C21.  No step of the hub adds a row to the devices table, removes one   *)
(* or changes a row's name, type or room: the table holds the six seeded   *)
(* ids throughout, also after status messages and control requests for an  *)
(* id it does not hold; and a control request for such an id still makes   *)
(* its publish and writes its device_logs row.                             *)
(***************************************************************************)
SeededIds ==
    {living_room_light, living_room_fan, bedroom_light, bedroom_ac, kitchen_light,
     motion_sensor_entrance}

C21_DeviceRowsStep ==
    /\ DOMAIN devices_table' = DOMAIN devices_table
    /\ \A id \in DOMAIN devices_table :
           /\ devices_table'[id].name = devices_table[id].name
           /\ devices_table'[id].type = devices_table[id].type
           /\ devices_table'[id].room = devices_table[id].room
    /\ (Stepped /\ NewRun.op = "control" /\ NewRun.device_id \notin DOMAIN devices_table)
       => /\ AppendedOne(published, published')
          /\ Newest(published').topic = smarthome \o Slash \o NewRun.device_id \o Slash \o Str_control
          /\ AppendedOne(device_logs, device_logs')
          /\ Newest(device_logs').device_id = NewRun.device_id
          /\ Newest(device_logs').action = "control_command"

C21_DeviceIdsKept == DOMAIN devices_table = SeededIds

C21_DeviceRowsFixed == [][C21_DeviceRowsStep]_vars /\ []C21_DeviceIdsKept

\* A status message and a control request for fan1, which has no row: the message is
\* logged, the command published and logged, and the table is as seeded.
C21_Witness ==
    /\ Len(history) = 2
    /\ history[1].op = "message" /\ history[1].topic = Topic(fan1, Str_status)
    /\ loads(history[1].raw) = PayloadStatus
    /\ history[2].op = "control" /\ history[2].device_id = fan1
    /\ fan1 \notin DOMAIN devices_table
    /\ DOMAIN devices_table = SeededIds
    /\ devices_table = sample_devices
    /\ Len(device_logs) = 2
    /\ device_logs[1].device_id = fan1 /\ device_logs[1].action = "status_update"
    /\ device_logs[2].device_id = fan1 /\ device_logs[2].action = "control_command"
    /\ Len(published) = 1
    /\ published[1].topic = Topic(fan1, Str_control)

(***************************************************************************)
(* C22.  With the messages classed as on_mqtt_message classes them (a      *)
(* topic with 'status' a status message, else one with 'sensor' a sensor   *)
(* message, else one with 'energy' an energy message): a sensor message    *)
(* writes no device_logs row and changes no row of the devices table and   *)
(* no entry of the devices dictionary; an energy message changes neither   *)
(* dictionary, writes no device_logs and no security_events row and emits  *)
(* nothing; a status message changes no entry of sensor_data.              *)
(***************************************************************************)
IsStatusTopic(topic) == IsSubstring(Str_status, topic)
IsSensorTopic(topic) == ~IsSubstring(Str_status, topic) /\ IsSubstring(Str_sensor, topic)
IsEnergyTopic(topic) ==
    /\ ~IsSubstring(Str_status, topic)
    /\ ~IsSubstring(Str_sensor, topic)
    /\ IsSubstring(Str_energy, topic)

C22_FrameStep ==
    MessageStep =>
        /\ IsSensorTopic(NewRun.topic)
           => /\ device_logs' = device_logs
              /\ devices_table' = devices_table
              /\ devices' = devices
        /\ IsEnergyTopic(NewRun.topic)
           => /\ devices' = devices
              /\ sensor_data' = sensor_data
              /\ device_logs' = device_logs
              /\ security_events' = security_events
              /\ emitted' = emitted
        /\ IsStatusTopic(NewRun.topic) => sensor_data' = sensor_data

C22_OtherSideUntouched == [][C22_FrameStep]_vars

\* The motion sensor reported motion, then the living room light a power reading: one
\* security event with its alert, one energy row, and nothing on the status side.
C22_Witness ==
    /\ Len(history) = 2
    /\ history[1].topic = Topic(motion_sensor_entrance, Str_sensor)
    /\ loads(history[1].raw) = PayloadMotion
    /\ history[2].topic = Topic(living_room_light, Str_energy)
    /\ loads(history[2].raw) = PayloadPower
    /\ Len(security_events) = 1
    /\ Len(energy_consumption) = 1
    /\ energy_consumption[1].device_id = living_room_light
    /\ device_logs = <<>>
    /\ devices = <<>>
    /\ devices_table = sample_devices
    /\ DOMAIN sensor_data = {motion_sensor_entrance}
    /\ Len(emitted) = 2
    /\ emitted[2].event = "security_alert"

(***************************************************************************)
(* C23.  In every state, the store failing at times: each device_update    *)
(* event emitted has a status_update row of device_logs for the same       *)
(* device with the same payload, committed before the emit; each           *)
(* security_alert emitted has a motion_detected row of security_events for *)
(* the same sensor, committed before the emit; and a message during which  *)
(* the store fails emits nothing.                                          *)
(***************************************************************************)
C23_EmittedIsCommitted ==
    \A i \in DOMAIN emitted :
        /\ emitted[i].event = "device_update"
           => \E j \in DOMAIN device_logs :
                  /\ device_logs[j].device_id = emitted[i].id
                  /\ device_logs[j].action = "status_update"
                  /\ loads(device_logs[j].value) = emitted[i].data
                  /\ device_logs[j].timestamp.v < emitted[i].at
        /\ emitted[i].event = "security_alert"
           => \E j \in DOMAIN security_events :
                  /\ security_events[j].sensor_id = emitted[i].id
                  /\ security_events[j].event_type = "motion_detected"
                  /\ security_events[j].timestamp.v < emitted[i].at

C23_FailedStep ==
    (MessageStep /\ error' = "OperationalError") => emitted' = emitted

C23_EmitAfterCommit == [][C23_FailedStep]_vars /\ []C23_EmittedIsCommitted

\* A status message met a failing store and was not broadcast; the store recovered and
\* the same message came again: one row, and one device_update after it.
C23_Witness ==
    /\ Len(history) = 2
    /\ ~db_fails
    /\ history[1].topic = Topic(living_room_light, Str_status)
    /\ history[2].topic = Topic(living_room_light, Str_status)
    /\ loads(history[1].raw) = PayloadStatus
    /\ loads(history[2].raw) = PayloadStatus
    /\ Len(device_logs) = 1
    /\ Len(emitted) = 2
    /\ emitted[2].event = "device_update"
    /\ emitted[2].id = living_room_light
    /\ emitted[2].data = PayloadStatus
    /\ device_logs[1].timestamp.v < emitted[2].at

(***************************************************************************)
(* C24.  A natural-language request whose translation gives a list of      *)
(* actions, each a JSON object: an action without a device id (no key,     *)
(* null, '') or without a command (no key, null, {}) is passed over, and   *)
(* each other action is published once, on its device's control topic      *)
(* with its command, in the order of the list; the request answers         *)
(* success.  A translation without the 'actions' key publishes nothing     *)
(* and answers success as well.                                            *)
(***************************************************************************)
AllObjects(actions) == \A k \in DOMAIN actions : actions[k].t = "object"

C24_BatchStep ==
    LET actions == TranslatedActions(NewRun)
        whole == SelectSeq(actions, WellFormed)
        calls == NewPublishes
    IN  (Stepped /\ ReachedActions(NewRun) /\ AllObjects(actions))
        => /\ Len(calls) = Len(whole)
           /\ \A k \in DOMAIN calls :
                  /\ calls[k].topic =
                         smarthome \o Slash \o whole[k].v["device_id"].v \o Slash \o Str_control
                  /\ loads(calls[k].payload) = whole[k].v["command"]
                  /\ k > 1 => calls[k - 1].at < calls[k].at
           /\ response'.success = TRUE
           /\ "actions" \notin DOMAIN loads(NewRun.raw.translation.text).v
              => published' = published

C24_SkipsIncompleteActions == [][C24_BatchStep]_vars

\* Connected, a translation of seven actions, five of them lacking the id or the
\* command: two publishes, the fan's before the light's.
C24_Witness ==
    /\ connected
    /\ Len(history) = 1
    /\ Last.op = "ai"
    /\ ReachedActions(Last)
    /\ Len(TranslatedActions(Last)) = 7
    /\ Len(published) = 2
    /\ published[1].topic = Topic(fan1, Str_control)
    /\ published[1].payload = dumps(CommandOn)
    /\ published[2].topic = Topic(living_room_light, Str_control)
    /\ published[2].payload = dumps(CommandOff)
    /\ published[1].at < published[2].at
    /\ response.success = TRUE
    /\ device_logs = <<>>

====
